---- MODULE Spec2Model ----
(***************************************************************************)
(* Model of the PulseKit Rust SDK client (src/sdks/rust/src/lib.rs): the   *)
(* event queue behind a mutex, capture with enrichment and the threshold   *)
(* drain, flush / flush_blocking, the two send routines, request shaping   *)
(* and the Drop implementation.                                            *)
(***************************************************************************)
EXTENDS Integers, Sequences, FiniteSets, TLC

\* ------------------------------------------------------------------ bounds
\* Spec: two threads share the client.
MaxEvents == 3
MaxBatchSize == 2
MaxFlushCalls == 1
\* SpecApi: one thread uses the whole public surface, debug off.
MaxApiEvents == 3
MaxApiBatchSize == 3
\* SpecDebug: the same with debug on or off.
MaxDebugEvents == 2

Threads == {1, 2}
Main == 1
NoThread == 0

\* ------------------------------------------------------------ Option<T>
None == <<>>
Some(x) == <<x>>
IsNone(o) == o = None
IsSome(o) == o # None
Unwrap(o) == o[1]
\* Option::or_else(|| other)
OrElse(o, other) == IF IsSome(o) THEN o ELSE other

\* ---------------------------------------------------------------- Level
Levels == {"Debug", "Info", "Warning", "Error", "Fatal"}
\* #[serde(rename_all = "lowercase")]
LevelWireName(l) ==
    CASE l = "Debug" -> "debug"
      [] l = "Info" -> "info"
      [] l = "Warning" -> "warning"
      [] l = "Error" -> "error"
      [] l = "Fatal" -> "fatal"

\* ---------------------------------------------------------------- Event
\* Event::default(): empty event_type, every Option field None.  The field id
\* is not a field of the struct: it names the capture call that produced
\* the event, so that events can be traced through queue, batch and request.
DefaultEvent ==
    [id |-> 0, event_type |-> "", level |-> None, message |-> None,
     metadata |-> None, stacktrace |-> None, tags |-> None,
     timestamp |-> None, fingerprint |-> None, environment |-> None,
     release |-> None]

\* capture_backtrace(): the frames the backtrace crate reports after the
\* first three; the collaborator is external, one fixed frame stands for it.
capture_backtrace ==
    << [file |-> Some("src/main.rs"), line |-> Some(7), function |-> Some("main")] >>

\* The event capture_error_with_options(message, None, None) builds.
ErrorEvent(message) ==
    [DefaultEvent EXCEPT !.event_type = "error", !.level = Some("Error"),
                         !.message = Some(message),
                         !.stacktrace = Some(capture_backtrace)]

\* The event capture_message_with_options(message, level, None, None) builds.
MessageEvent(message, level) ==
    [DefaultEvent EXCEPT !.event_type = "message", !.level = Some(level),
                         !.message = Some(message)]

\* A caller-constructed event that sets timestamp, environment and release
\* itself and leaves level unset.
CustomEvent ==
    [DefaultEvent EXCEPT !.event_type = "payment.success",
                         !.timestamp = Some("1999-12-31T23:59:59+00:00"),
                         !.environment = Some("staging"),
                         !.release = Some("9.9.9")]

\* A caller-constructed event that sets its type only.
BareEvent == [DefaultEvent EXCEPT !.event_type = "test"]

\* Utc::now().to_rfc3339() at clock reading n.
ToRfc3339(n) ==
    CASE n = 0 -> "2026-01-01T00:00:00+00:00"
      [] n = 1 -> "2026-01-01T00:00:01+00:00"
      [] n = 2 -> "2026-01-01T00:00:02+00:00"
      [] n = 3 -> "2026-01-01T00:00:03+00:00"
      [] n = 4 -> "2026-01-01T00:00:04+00:00"
      [] OTHER -> "2026-01-01T00:00:05+00:00"

\* --------------------------------------------------------------- Config
\* Mutant: other defaults.
DefaultConfigSmallBatch ==
    [endpoint |-> "", api_key |-> "", environment |-> None,
     release |-> None, batch_size |-> 5, debug |-> FALSE]
\* Config::default()
DefaultConfig ==
    [endpoint |-> "", api_key |-> "", environment |-> Some("production"),
     release |-> None, batch_size |-> 10, debug |-> FALSE]

VARIABLES
    config,      \* PulseKit.config, read-only after new()
    queue,       \* PulseKit.queue: the Vec<Event> behind the mutex
    lock,        \* the thread holding the queue mutex, or NoThread
    pc,          \* per thread: its position in the call it is executing
    op,          \* per thread: the public function it is executing
    event,       \* per thread: capture's local `event`
    events,      \* per thread: the local `events` (a drained batch)
    wire,        \* the HTTP requests issued so far, in issue order
    log,         \* the lines printed to stdout so far
    clock,       \* the reading Utc::now() gives
    nextId,      \* the number of capture calls made so far, plus one
    flushCalls,  \* the number of flush / flush_blocking calls made so far
    pushOrder,   \* history: the ids of the pushed events, in push order
    drained,     \* history: the drained batches, in drain order
    alive,       \* "live", "dropping" (Drop::drop is running) or "dropped"
    limit,       \* the number of capture calls the application makes at most
    given,       \* history: by id, the event as its caller built it and the
                 \* clock reading at which capture was entered
    json,        \* the result of serde_json::to_value with the JSON type of
                 \* each member, None before the call
    twin         \* two clients that differ in Config.debug only, by debug

vars == <<config, queue, lock, pc, op, event, events, wire, log, clock,
          nextId, flushCalls, pushOrder, drained, alive, limit, given, json,
          twin>>

\* ------------------------------------------------------- serialization
\* JSON null, which serde writes for an Option that is None and not skipped.
Null == [json |-> "null"]

OptionalFields ==
    {"level", "message", "metadata", "stacktrace", "tags", "timestamp",
     "fingerprint", "environment", "release"}

\* Mutant: no field has skip_serializing_if.
EventKeysNoSkip(e) == {"type"} \cup OptionalFields

\* The keys serde writes for an Event: "type" always (rename = "type"), each
\* Option field only when it is Some (skip_serializing_if = "Option::is_none").
EventKeys(e) ==
    {"type"}
    \cup (IF IsSome(e.level) THEN {"level"} ELSE {})
    \cup (IF IsSome(e.message) THEN {"message"} ELSE {})
    \cup (IF IsSome(e.metadata) THEN {"metadata"} ELSE {})
    \cup (IF IsSome(e.stacktrace) THEN {"stacktrace"} ELSE {})
    \cup (IF IsSome(e.tags) THEN {"tags"} ELSE {})
    \cup (IF IsSome(e.timestamp) THEN {"timestamp"} ELSE {})
    \cup (IF IsSome(e.fingerprint) THEN {"fingerprint"} ELSE {})
    \cup (IF IsSome(e.environment) THEN {"environment"} ELSE {})
    \cup (IF IsSome(e.release) THEN {"release"} ELSE {})

\* Serialize for Option<T> where T is written as it is (String, u32, a
\* map): null for None, the value for Some.
OptionToValue(o) == IF IsNone(o) THEN Null ELSE Unwrap(o)

\* The keys serde writes for a StackFrame.
FrameKeys(f) ==
    (IF IsSome(f.file) THEN {"file"} ELSE {})
    \cup (IF IsSome(f.line) THEN {"line"} ELSE {})
    \cup (IF IsSome(f.function) THEN {"function"} ELSE {})

FrameToValue(f) ==
    [k \in FrameKeys(f) |->
        CASE k = "file" -> OptionToValue(f.file)
          [] k = "line" -> OptionToValue(f.line)
          [] k = "function" -> OptionToValue(f.function)]

\* serde_json::to_value(&event): a JSON object, as a function on its keys.
ToValue(e) ==
    [k \in EventKeys(e) |->
        CASE k = "type" -> e.event_type
          [] k = "level" ->
               IF IsNone(e.level) THEN Null ELSE LevelWireName(Unwrap(e.level))
          [] k = "message" -> OptionToValue(e.message)
          [] k = "metadata" -> OptionToValue(e.metadata)
          [] k = "stacktrace" ->
               IF IsNone(e.stacktrace) THEN Null
               ELSE [i \in 1..Len(Unwrap(e.stacktrace)) |->
                        FrameToValue(Unwrap(e.stacktrace)[i])]
          [] k = "tags" -> OptionToValue(e.tags)
          [] k = "timestamp" -> OptionToValue(e.timestamp)
          [] k = "fingerprint" -> OptionToValue(e.fingerprint)
          [] k = "environment" -> OptionToValue(e.environment)
          [] k = "release" -> OptionToValue(e.release)]

\* The JSON type of the member k of the object written for e: the type of
\* the field's value, or null for an Option that is None.
JsonType(e, k) ==
    CASE k = "type" -> "string"
      [] k \in OptionalFields /\ IsNone(e[k]) -> "null"
      [] k \in {"metadata", "tags"} -> "object"
      [] k = "stacktrace" -> "array"
      [] OTHER -> "string"

\* ----------------------------------------------------- request shaping
SinglePath == "/api/v1/events"
BatchPath == "/api/v1/events/batch"

\* Mutant: every batch, also one of a single event, takes the batch shape.
prepare_request_batch_only(evs) ==
    [url |-> config.endpoint \o BatchPath,
     body |-> [events |-> [i \in 1..Len(evs) |-> ToValue(evs[i])]]]

\* prepare_request(&events): the url and the JSON body.
prepare_request(evs) ==
    IF Len(evs) = 1
    THEN [url |-> config.endpoint \o SinglePath, body |-> ToValue(evs[1])]
    ELSE [url |-> config.endpoint \o BatchPath,
          body |-> [events |-> [i \in 1..Len(evs) |-> ToValue(evs[i])]]]

\* The request a send routine issues for the batch evs: what prepare_request
\* returns, the two headers, and (history) the batch and the routine, "sync"
\* for send_events_sync and "async" for send_events_async.
Request(evs, via) ==
    [url |-> prepare_request(evs).url,
     body |-> prepare_request(evs).body,
     content_type |-> "application/json",
     key |-> config.api_key,
     events |-> evs, via |-> via]

\* ------------------------------------------------------------ enrichment
\* Mutant: a timestamp the caller set is kept.
EnrichKeepTimestamp(e, now) ==
    [e EXCEPT !.timestamp = OrElse(@, Some(ToRfc3339(now))),
              !.environment = OrElse(@, config.environment),
              !.release = OrElse(@, config.release),
              !.level = IF IsNone(@) THEN Some("Info") ELSE @]
\* Mutant: environment, release and level are set whatever the caller set.
EnrichOverwrite(e, now) ==
    [e EXCEPT !.timestamp = Some(ToRfc3339(now)),
              !.environment = config.environment,
              !.release = config.release,
              !.level = Some("Info")]
\* capture, lines 185-191.
Enrich(e, now) ==
    [e EXCEPT !.timestamp = Some(ToRfc3339(now)),
              !.environment = OrElse(@, config.environment),
              !.release = OrElse(@, config.release),
              !.level = IF IsNone(@) THEN Some("Info") ELSE @]

\* ----------------------------------------------------------- the queue
\* Mutant: the event is not stored.
PushNothing(q, e) == q
\* Mutant: the event is inserted at the front.
PushFront(q, e) == <<e>> \o q
\* queue.push(event)
Push(q, e) == Append(q, e)
\* Mutant: the drained events are collected back to front.
DrainedReversed(q) == [i \in 1..Len(q) |-> q[Len(q) + 1 - i]]
\* queue.drain(..).collect(): the removed events, in order.
Drained(q) == [i \in 1..Len(q) |-> q[i]]
\* Mutant: the events are copied out and stay in the queue.
AfterDrainKeep(q) == q
\* Mutant: the drain takes batch_size events at most.
AfterDrainBatch(q) == SubSeq(q, config.batch_size + 1, Len(q))
\* What drain(..) leaves in the queue.
AfterDrain(q) == SubSeq(q, Len(q) + 1, Len(q))
\* Mutant: the threshold test waits for twice the batch size.
ReachedTwiceThreshold(q) == Len(q) >= 2 * config.batch_size
\* Mutant: the threshold test is off by one.
PassedThreshold(q) == Len(q) > config.batch_size
\* capture, line 200: the threshold test.
ReachedThreshold(q) == Len(q) >= config.batch_size

Ids(evs) == [i \in 1..Len(evs) |-> evs[i].id]

\* ------------------------------------------------------------------ log
LogLine(kind, n, status) == [kind |-> kind, n |-> n, status |-> status]
\* `if self.config.debug { println!(..) }`
Println(l, line) == IF config.debug THEN Append(l, line) ELSE l

\* ----------------------------------------------------------------- Init
\* What a client holds and has done, for the runs that compare two clients:
\* its queue, the requests it issued and the lines it printed.
NewClient == [queue |-> <<>>, wire |-> <<>>, log |-> <<>>]

Endpoint == "https://pulse.example"
ApiKey == "pk_test"

\* PulseKit::new(config): an empty queue, whatever the config holds;
\* batch_size is not validated.
New(cfg, calls) ==
    /\ config = cfg
    /\ limit = calls
    /\ queue = <<>>
    /\ lock = NoThread
    /\ pc = [t \in Threads |-> "idle"]
    /\ op = [t \in Threads |-> "none"]
    /\ event = [t \in Threads |-> DefaultEvent]
    /\ events = [t \in Threads |-> <<>>]
    /\ wire = <<>>
    /\ log = <<>>
    /\ clock = 0
    /\ nextId = 1
    /\ flushCalls = 0
    /\ pushOrder = <<>>
    /\ drained = <<>>
    /\ alive = "live"
    /\ given = <<>>
    /\ json = None
    /\ twin = [d \in BOOLEAN |-> NewClient]

\* The configs of the clients: the default one with an endpoint, a key, a
\* batch size and the debug flag set.
ConfigWith(b, d) ==
    [DefaultConfig EXCEPT !.endpoint = Endpoint, !.api_key = ApiKey,
                          !.batch_size = b, !.debug = d]

Init == \E b \in 0..MaxBatchSize : New(ConfigWith(b, FALSE), MaxEvents)

InitApi == \E b \in 0..MaxApiBatchSize : New(ConfigWith(b, FALSE), MaxApiEvents)

InitDebug ==
    \E b \in 0..MaxBatchSize, d \in BOOLEAN : New(ConfigWith(b, d), MaxDebugEvents)

\* -------------------------------------------------------------- helpers
\* Mutant: the guard is still held after the critical section.
KeepGuard(t) == t
\* drop(queue) at line 202, and the end of the guard's scope at lines 205,
\* 238 and 252: the mutex is released.
DropGuard(t) == NoThread

\* The history entry of a drain by thread t.
DrainEntry(t, q) == [ids |-> Ids(Drained(q)), cause |-> op[t]]

\* A public function returns (): the thread is idle again; when the function
\* was Drop::drop the client is gone.
Return(t) ==
    /\ pc' = [pc EXCEPT ![t] = "idle"]
    /\ op' = [op EXCEPT ![t] = "none"]
    /\ events' = [events EXCEPT ![t] = <<>>]
    /\ alive' = IF op[t] = "drop" THEN "dropped" ELSE alive

\* ------------------------------------------------------------- capture
\* capture(event), lines 183-191: enrichment, up to the lock() of line 193.
CaptureCall(t, e) ==
    /\ alive = "live"
    /\ pc[t] = "idle"
    /\ nextId <= limit
    /\ event' = [event EXCEPT ![t] = Enrich([e EXCEPT !.id = nextId], clock)]
    /\ clock' = clock + 1
    /\ nextId' = nextId + 1
    /\ pc' = [pc EXCEPT ![t] = "cap_lock"]
    /\ op' = [op EXCEPT ![t] = "capture"]
    /\ given' = Append(given, [event |-> e, at |-> clock])
    /\ UNCHANGED <<config, limit, json, twin, queue, lock, events, wire, log,
                   flushCalls, pushOrder, drained, alive>>

\* capture with a caller-constructed event.
Capture(t) == CaptureCall(t, CustomEvent)

\* capture with a caller-constructed event that sets nothing but its type.
CaptureEvent(t) == CaptureCall(t, BareEvent)

\* capture_error(message) -> capture_error_with_options -> capture.
CaptureError(t) == CaptureCall(t, ErrorEvent("boom"))

\* capture_message(message, level) -> capture_message_with_options -> capture.
CaptureMessage(t) == CaptureCall(t, MessageEvent("hello", "Warning"))

\* capture, lines 193-198: the lock is taken, the event pushed, the queue
\* size logged.
CaptureLock(t) ==
    /\ pc[t] = "cap_lock"
    /\ lock = NoThread
    /\ lock' = t
    /\ queue' = Push(queue, event[t])
    /\ log' = Println(log, LogLine("queued", Len(queue'), ""))
    /\ pushOrder' = Append(pushOrder, event[t].id)
    /\ event' = [event EXCEPT ![t] = DefaultEvent]
    /\ pc' = [pc EXCEPT ![t] = "cap_check"]
    /\ UNCHANGED <<config, limit, given, json, twin,
                   op, events, wire, clock, nextId, flushCalls,
                   drained, alive>>

\* Mutant: capture never drains; the guard goes out of scope and it returns.
CaptureCheckNoDrain(t) ==
    /\ pc[t] = "cap_check"
    /\ lock = t
    /\ lock' = DropGuard(t)
    /\ Return(t)
    /\ UNCHANGED <<config, limit, given, json, twin, queue, drained, event, wire,
                   log, clock, nextId, flushCalls, pushOrder>>

\* capture, lines 200-205: at the threshold the whole queue is drained, the
\* guard dropped and the batch handed to send_events_sync; below it the
\* guard goes out of scope and capture returns.
CaptureCheck(t) ==
    /\ pc[t] = "cap_check"
    /\ lock = t
    /\ IF ReachedThreshold(queue)
       THEN /\ events' = [events EXCEPT ![t] = Drained(queue)]
            /\ queue' = AfterDrain(queue)
            /\ drained' = Append(drained, DrainEntry(t, queue))
            /\ lock' = DropGuard(t)
            /\ pc' = [pc EXCEPT ![t] = "send"]
            /\ UNCHANGED <<op, alive>>
       ELSE /\ lock' = DropGuard(t)
            /\ Return(t)
            /\ UNCHANGED <<queue, drained>>
    /\ UNCHANGED <<config, limit, given, json, twin,
                   event, wire, log, clock, nextId, flushCalls,
                   pushOrder>>

\* ---------------------------------------------------------------- flush
\* The entry of a flush: the call, and the lock() of line 236 / 250.
FlushCall(t, which) ==
    /\ pc[t] = "idle"
    /\ lock = NoThread
    /\ lock' = t
    /\ op' = [op EXCEPT ![t] = which]
    /\ pc' = [pc EXCEPT ![t] = "fl_drain"]
    /\ UNCHANGED <<config, limit, given, json, twin,
                   queue, event, events, wire, log, clock, nextId,
                   pushOrder, drained>>

\* flush().await, line 234.
Flush(t) ==
    /\ alive = "live"
    /\ flushCalls < MaxFlushCalls
    /\ flushCalls' = flushCalls + 1
    /\ FlushCall(t, "flush")
    /\ UNCHANGED alive

\* flush_blocking(), line 248.
FlushBlocking(t) ==
    /\ alive = "live"
    /\ flushCalls < MaxFlushCalls
    /\ flushCalls' = flushCalls + 1
    /\ FlushCall(t, "flush_blocking")
    /\ UNCHANGED alive

\* Mutant: the destructor does not flush.
DropWithoutFlush(t) ==
    /\ alive = "live"
    /\ \A u \in Threads : pc[u] = "idle"
    /\ alive' = "dropped"
    /\ UNCHANGED <<config, limit, given, json, twin,
                   queue, lock, pc, op, event, events, wire, log,
                   clock, nextId, flushCalls, pushOrder, drained>>

\* Drop::drop(&mut self), lines 349-353: the client is exclusively owned, so
\* no other call is running; it calls flush_blocking.
Drop(t) ==
    /\ alive = "live"
    /\ \A u \in Threads : pc[u] = "idle"
    /\ alive' = "dropping"
    /\ FlushCall(t, "drop")
    /\ UNCHANGED flushCalls

\* flush / flush_blocking, lines 235-238 / 249-252: the whole queue is
\* drained and the guard goes out of scope.
FlushDrain(t) ==
    /\ pc[t] = "fl_drain"
    /\ lock = t
    /\ events' = [events EXCEPT ![t] = Drained(queue)]
    /\ queue' = AfterDrain(queue)
    /\ drained' = Append(drained, DrainEntry(t, queue))
    /\ lock' = DropGuard(t)
    /\ pc' = [pc EXCEPT ![t] = "fl_check"]
    /\ UNCHANGED <<config, limit, given, json, twin,
                   op, event, wire, log, clock, nextId, flushCalls,
                   pushOrder, alive>>

\* Mutant: the early return on an empty batch is missing.
NeverNothingToSend(evs) == FALSE
\* flush / flush_blocking, lines 240-242 / 254-256: `if events.is_empty()`.
NothingToSend(evs) == Len(evs) = 0

\* flush / flush_blocking, lines 240-244 / 254-258: return on an empty
\* batch, else hand it to the send routine.
FlushCheck(t) ==
    /\ pc[t] = "fl_check"
    /\ IF NothingToSend(events[t])
       THEN Return(t)
       ELSE /\ pc' = [pc EXCEPT ![t] = "send"]
            /\ UNCHANGED <<op, events, alive>>
    /\ UNCHANGED <<config, limit, given, json, twin,
                   queue, lock, event, wire, log, clock, nextId,
                   flushCalls, pushOrder, drained>>

\* ----------------------------------------------------------------- send
\* send_events_sync / send_events_async up to .send(): the request is built
\* and issued.
IssueRequest(t, via) ==
    /\ pc[t] = "send"
    /\ wire' = Append(wire, Request(events[t], via))
    /\ pc' = [pc EXCEPT ![t] = "await"]
    /\ UNCHANGED <<config, limit, given, json, twin,
                   queue, lock, op, event, events, log, clock,
                   nextId, flushCalls, pushOrder, drained, alive>>

\* send_events_sync, lines 292-300.
SendEventsSync(t) ==
    /\ op[t] \in {"capture", "flush_blocking", "drop"}
    /\ IssueRequest(t, "sync")

\* Mutant: the async routine leaves out the X-PulseKit-Key header.
SendEventsAsyncNoKey(t) ==
    /\ op[t] = "flush"
    /\ pc[t] = "send"
    /\ wire' = Append(wire, [Request(events[t], "async") EXCEPT !.key = ""])
    /\ pc' = [pc EXCEPT ![t] = "await"]
    /\ UNCHANGED <<config, limit, given, json, twin,
                   queue, lock, op, event, events, log, clock,
                   nextId, flushCalls, pushOrder, drained, alive>>

\* send_events_async, lines 263-272.
SendEventsAsync(t) ==
    /\ op[t] = "flush"
    /\ IssueRequest(t, "async")

\* What .send() can give back: Ok(resp) with a 2xx or another status, or
\* Err(e).
Outcomes == {"200", "500", "error"}

\* The line the match at lines 274-288 / 302-316 prints.
ResultLine(outcome, evs) ==
    IF outcome = "error"
    THEN LogLine("failed", 0, outcome)
    ELSE LogLine("sent", Len(evs), outcome)

\* Mutant: a batch whose send did not succeed is put back on the queue.
RequeueOnFailure(q, evs, outcome) == IF outcome = "200" THEN q ELSE evs \o q
\* The queue after the match on the send's result: neither arm touches it.
QueueAfterSend(q, evs, outcome) == q

\* Mutant: the Err arm propagates the failure instead of returning.
FailOnError(outcome) == IF outcome = "error" THEN "failed" ELSE "idle"
\* Where a send routine leaves its caller after the match: both arms fall
\* through and the routine returns ().
AfterMatch(outcome) == "idle"

\* The match on the result of .send(): a log line under debug, then return.
MatchResult(t, outcome) ==
    /\ pc[t] = "await"
    /\ log' = Println(log, ResultLine(outcome, events[t]))
    /\ queue' = QueueAfterSend(queue, events[t], outcome)
    /\ pc' = [pc EXCEPT ![t] = AfterMatch(outcome)]
    /\ op' = [op EXCEPT ![t] = "none"]
    /\ events' = [events EXCEPT ![t] = <<>>]
    /\ alive' = IF op[t] = "drop" THEN "dropped" ELSE alive
    /\ UNCHANGED <<config, limit, given, json, twin,
                   lock, event, wire, clock, nextId, flushCalls,
                   pushOrder, drained>>

\* send_events_sync, lines 301-317.
SendSyncDone(t) ==
    /\ op[t] \in {"capture", "flush_blocking", "drop"}
    /\ \E outcome \in Outcomes : MatchResult(t, outcome)

\* send_events_async, lines 272-289.
SendAsyncDone(t) ==
    /\ op[t] = "flush"
    /\ \E outcome \in Outcomes : MatchResult(t, outcome)

\* ----------------------------------------------------------------- Next
Next ==
    \E t \in Threads :
        \/ Capture(t)
        \/ CaptureLock(t)
        \/ CaptureCheck(t)
        \/ Flush(t)
        \/ FlushBlocking(t)
        \/ Drop(t)
        \/ FlushDrain(t)
        \/ FlushCheck(t)
        \/ SendEventsSync(t)
        \/ SendEventsAsync(t)
        \/ SendSyncDone(t)
        \/ SendAsyncDone(t)

Spec == Init /\ [][Next]_vars

\* The same, with the scheduling the platform gives: a thread that can take
\* a step takes one eventually (the OS schedules every thread, the mutex is
\* granted to a waiter once it is free, a request ends in a response or an
\* error), so the client does not stop in the middle of a call.
SpecFair == Init /\ [][Next]_vars /\ WF_vars(Next)

\* One thread, every public function.
NextApi ==
    \/ CaptureEvent(Main)
    \/ CaptureError(Main)
    \/ CaptureMessage(Main)
    \/ CaptureLock(Main)
    \/ CaptureCheck(Main)
    \/ Flush(Main)
    \/ FlushBlocking(Main)
    \/ Drop(Main)
    \/ FlushDrain(Main)
    \/ FlushCheck(Main)
    \/ SendEventsSync(Main)
    \/ SendEventsAsync(Main)
    \/ SendSyncDone(Main)
    \/ SendAsyncDone(Main)

SpecApi == InitApi /\ [][NextApi]_vars

SpecDebug == InitDebug /\ [][NextApi]_vars

\* ------------------------------------------------ enrichment of any event
\* SpecEnrich: one thread captures events that set or leave unset each field
\* capture touches, on clients whose Config has or lacks environment and
\* release.
MaxEnrichEvents == 1

\* Option<T> over the values S.
OptionOf(S) == {None} \cup {Some(x) : x \in S}

\* The events a caller can construct, as far as capture looks at them.
CallerEvents ==
    {[DefaultEvent EXCEPT !.event_type = "job.done", !.timestamp = ts,
                          !.environment = env, !.release = rel, !.level = lv] :
        ts \in OptionOf({"1999-12-31T23:59:59+00:00"}),
        env \in OptionOf({"staging"}),
        rel \in OptionOf({"9.9.9"}),
        lv \in OptionOf({"Info", "Fatal"})}

InitEnrich ==
    \E env \in OptionOf({"production"}), rel \in OptionOf({"1.2.3"}), b \in {1, 2} :
        New([ConfigWith(b, FALSE) EXCEPT !.environment = env, !.release = rel],
            MaxEnrichEvents)

\* capture with any caller-constructed event.
CaptureAny(t) == \E e \in CallerEvents : CaptureCall(t, e)

NextEnrich ==
    \/ CaptureAny(Main)
    \/ CaptureLock(Main)
    \/ CaptureCheck(Main)
    \/ FlushBlocking(Main)
    \/ FlushDrain(Main)
    \/ FlushCheck(Main)
    \/ SendEventsSync(Main)
    \/ SendSyncDone(Main)

SpecEnrich == InitEnrich /\ [][NextEnrich]_vars

\* ------------------------------------------------- the default client
\* SpecDefault: one thread captures on a client built from
\* Config { endpoint, api_key, ..Default::default() } and never flushes.
MaxDefaultEvents == 10

InitDefault ==
    New([DefaultConfig EXCEPT !.endpoint = Endpoint, !.api_key = ApiKey],
        MaxDefaultEvents)

NextDefault ==
    \/ CaptureEvent(Main)
    \/ CaptureMessage(Main)
    \/ CaptureLock(Main)
    \/ CaptureCheck(Main)
    \/ SendEventsSync(Main)
    \/ SendSyncDone(Main)

SpecDefault == InitDefault /\ [][NextDefault]_vars

\* ------------------------------------------------ serializing any event
\* SpecSerde: serde_json::to_value on events with every combination of set
\* and unset fields.  A metadata map may hold a JSON null of the caller's;
\* a stack frame may lack fields.
SerdeEvents ==
    {[id |-> 0, event_type |-> ty, level |-> lv, message |-> msg,
      metadata |-> md, stacktrace |-> st, tags |-> tg, timestamp |-> ts,
      fingerprint |-> fp, environment |-> env, release |-> rel] :
        ty \in {"test", ""},
        lv \in OptionOf(Levels),
        msg \in OptionOf({"Test message"}),
        md \in OptionOf({[user_id |-> 42], [note |-> Null]}),
        st \in OptionOf({<<>>, capture_backtrace,
                         <<[file |-> None, line |-> None, function |-> Some("f")]>>}),
        tg \in OptionOf({[team |-> "core"]}),
        ts \in OptionOf({"2026-01-01T00:00:00+00:00"}),
        fp \in OptionOf({"abc123"}),
        env \in OptionOf({"staging"}),
        rel \in OptionOf({"9.9.9"})}

InitSerde == New(ConfigWith(1, FALSE), 0)

\* serde_json::to_value(&event) for an event the caller built.
Serialize ==
    \E e \in SerdeEvents :
        /\ IsNone(json)
        /\ given' = <<[event |-> e, at |-> clock]>>
        /\ json' = Some([object |-> ToValue(e),
                          types |-> [k \in EventKeys(e) |-> JsonType(e, k)]])
        /\ UNCHANGED <<config, limit, twin, queue, lock, pc, op, event, events,
                       wire, log, clock, nextId, flushCalls, pushOrder, drained,
                       alive>>

SpecSerde == InitSerde /\ [][Serialize]_vars

\* ------------------------------------- two clients that differ in debug
\* SpecTwin: one caller makes the same calls, at the same times and with
\* the same send outcomes, on two clients whose Configs differ in debug
\* only.  Each call runs to its return; c is the client's record, d its
\* debug flag.
MaxTwinEvents == 3

\* `if self.config.debug { println!(..) }` in the client whose flag is d.
PrintlnIf(d, l, line) == IF d THEN Append(l, line) ELSE l

\* Mutant: with debug on the send routine prints and sends nothing.
SendByDryRunInDebug(c, d, evs, via, outcome) ==
    IF d THEN [c EXCEPT !.log = Append(@, ResultLine(outcome, evs))]
    ELSE [c EXCEPT !.wire = Append(@, Request(evs, via))]

\* send_events_sync / send_events_async: the request is issued, the result
\* matched and, with debug on, printed.
SendBy(c, d, evs, via, outcome) ==
    [c EXCEPT !.wire = Append(@, Request(evs, via)),
              !.log = PrintlnIf(d, @, ResultLine(outcome, evs))]

\* capture(e), lines 183-205.
CaptureBy(c, d, e, now, outcome) ==
    LET q == Push(c.queue, Enrich(e, now))
        pushed == [c EXCEPT !.queue = q,
                            !.log = PrintlnIf(d, @, LogLine("queued", Len(q), ""))]
    IN  IF ReachedThreshold(q)
        THEN SendBy([pushed EXCEPT !.queue = AfterDrain(q)], d, Drained(q),
                    "sync", outcome)
        ELSE pushed

\* flush (via "async") and flush_blocking (via "sync"), lines 233-259.
FlushBy(c, d, via, outcome) ==
    LET evs == Drained(c.queue)
        emptied == [c EXCEPT !.queue = AfterDrain(@)]
    IN  IF NothingToSend(evs) THEN emptied
        ELSE SendBy(emptied, d, evs, via, outcome)

InitTwin == \E b \in 0..MaxBatchSize : New(ConfigWith(b, FALSE), MaxTwinEvents)

\* Both clients are given the same capture call.
TwinCapture ==
    /\ nextId <= limit
    /\ \E e \in {BareEvent, MessageEvent("hello", "Warning")}, outcome \in Outcomes :
          /\ twin' = [d \in BOOLEAN |->
                         CaptureBy(twin[d], d, [e EXCEPT !.id = nextId], clock, outcome)]
          /\ given' = Append(given, [event |-> e, at |-> clock])
    /\ clock' = clock + 1
    /\ nextId' = nextId + 1
    /\ UNCHANGED <<config, limit, json, queue, lock, pc, op, event, events, wire,
                   log, flushCalls, pushOrder, drained, alive>>

\* Both clients are given the same flush call.
TwinFlushCall(via) ==
    /\ flushCalls < MaxFlushCalls
    /\ flushCalls' = flushCalls + 1
    /\ \E outcome \in Outcomes :
          twin' = [d \in BOOLEAN |-> FlushBy(twin[d], d, via, outcome)]
    /\ UNCHANGED <<config, limit, given, json, queue, lock, pc, op, event, events,
                   wire, log, clock, nextId, pushOrder, drained, alive>>

TwinFlush == TwinFlushCall("async")
TwinFlushBlocking == TwinFlushCall("sync")

NextTwin == TwinCapture \/ TwinFlush \/ TwinFlushBlocking

SpecTwin == InitTwin /\ [][NextTwin]_vars

\* ---------------------------------------------------- history operators
Range(s) == {s[i] : i \in DOMAIN s}

RECURSIVE Flatten(_)
Flatten(ss) == IF ss = <<>> THEN <<>> ELSE Head(ss) \o Flatten(Tail(ss))

\* How often x occurs in the sequence s.
Count(x, s) == Cardinality({i \in DOMAIN s : s[i] = x})

\* The ids of the events each request carries, in issue order.
WireIds == [i \in DOMAIN wire |-> Ids(wire[i].events)]
\* The ids of the drained batches, in drain order.
DrainedIds == [i \in DOMAIN drained |-> drained[i].ids]
\* The non-empty drains.
NonEmptyDrains == {i \in DOMAIN drained : drained[i].ids # <<>>}
NonEmpty(ids) == ids # <<>>
\* The ids of the non-empty drained batches, in drain order.
DrainedBatches == SelectSeq(DrainedIds, NonEmpty)

\* The threads that hold a drained batch no request was issued for yet.
Holding == {t \in Threads : pc[t] \in {"fl_check", "send"}}
\* How often id occurs in those batches.
HeldCount(id) ==
    Cardinality(UNION {{<<t, i>> : i \in {j \in DOMAIN events[t] : events[t][j].id = id}} :
                          t \in Holding})

\* The place of an event in the push order.
Pos(id) == CHOOSE i \in DOMAIN pushOrder : pushOrder[i] = id

AllIdle == \A t \in Threads : pc[t] = "idle"

\* ------------------------------------------------------------------ C1
\* C1: under any interleaving of capture, flush and flush_blocking, every
\* pushed event is at every moment in exactly one place (the queue, a
\* drained batch about to be sent, or one request) exactly once, and once
\* the client has been torn down every captured event is in exactly one
\* request, exactly once.
C1_Completeness ==
    /\ \A id \in Range(pushOrder) :
          Count(id, Ids(queue)) + HeldCount(id) + Count(id, Flatten(WireIds)) = 1
    /\ alive = "dropped" =>
          /\ Range(pushOrder) = 1..(nextId - 1)
          /\ \A id \in 1..(nextId - 1) : Count(id, Flatten(WireIds)) = 1
          /\ Len(Flatten(WireIds)) = nextId - 1

\* Every capture call was made, a flush ran and found events, two callers
\* issued their requests in another order than they drained, and the client
\* is torn down.
C1_Witness ==
    /\ alive = "dropped"
    /\ nextId = limit + 1
    /\ \E i \in DOMAIN drained :
          drained[i].cause \in {"flush", "flush_blocking"} /\ drained[i].ids # <<>>
    /\ WireIds # DrainedBatches

\* ------------------------------------------------------------------ C3
\* The events with these ids were pushed in this order.
InPushOrder(ids) ==
    \A i, j \in DOMAIN ids : i < j => Pos(ids[i]) < Pos(ids[j])

\* C3: in every batch handed to a send routine, by a threshold drain, a
\* flush, a flush_blocking or the teardown, the events are in the order in
\* which they were pushed.
C3_OrderWithinBatch ==
    /\ \A i \in DOMAIN wire : InPushOrder(WireIds[i])
    /\ \A t \in Holding : InPushOrder(Ids(events[t]))

\* A request whose events were pushed in another order than their capture
\* calls began.
C3_Witness ==
    \E i \in DOMAIN wire :
        /\ Len(wire[i].events) >= 2
        /\ wire[i].events[1].id > wire[i].events[2].id

\* ------------------------------------------------------------------ C4
\* C4, as claimed: if e1 was pushed before e2, the request carrying e1 is
\* issued no later than the request carrying e2 (stated for the batch sizes
\* the configuration documents, batch_size >= 1).
C4_SendOrderIsPushOrder ==
    config.batch_size >= 1 => InPushOrder(Flatten(WireIds))

\* C4, amended: events leave the queue in push order (the drained batches,
\* in drain order, followed by the queue, are the pushed events in push
\* order) and every request carries one drained batch; the requests of two
\* batches drained by concurrent callers can be issued in either order.
C4_DrainOrderIsPushOrder ==
    /\ Flatten(DrainedIds) \o Ids(queue) = pushOrder
    /\ \A i \in DOMAIN wire : \E k \in NonEmptyDrains :
          drained[k].ids = WireIds[i]

\* Two batches were drained and their requests issued in the opposite
\* order.
C4_Witness ==
    /\ Len(DrainedBatches) = 2
    /\ Len(wire) = 2
    /\ WireIds[1] = DrainedBatches[2]
    /\ WireIds[2] = DrainedBatches[1]

\* ------------------------------------------------------------------ C5
\* C5: no send routine is ever given an empty batch, and a flush,
\* flush_blocking or teardown that finds the queue empty issues no request.
C5_NeverEmptyBatch ==
    /\ \A i \in DOMAIN wire : Len(wire[i].events) >= 1
    /\ \A t \in Threads : pc[t] \in {"send", "await"} => Len(events[t]) >= 1
    /\ Len(wire) <= Cardinality(NonEmptyDrains)

\* A flush and the teardown both found the queue empty, and nothing was
\* sent.
C5_Witness ==
    /\ alive = "dropped"
    /\ wire = <<>>
    /\ \E i, j \in DOMAIN drained :
          /\ drained[i].cause \in {"flush", "flush_blocking"}
          /\ drained[i].ids = <<>>
          /\ drained[j].cause = "drop"
          /\ drained[j].ids = <<>>

\* ------------------------------------------------------------------ C2
NoFlushYet == flushCalls = 0 /\ alive = "live"

\* C2, as claimed: with no flush call so far, after batch_size - 1 captures
\* the queue is non-empty and nothing was sent.
C2_QueueNonEmptyBelowThreshold ==
    (NoFlushYet /\ config.batch_size >= 1 /\ AllIdle
        /\ Len(pushOrder) = config.batch_size - 1)
    => (queue # <<>> /\ wire = <<>>)

\* C2, amended: with no flush call so far and batch_size >= 1, the first
\* batch_size - 1 captures leave exactly that many events in the queue
\* (none when batch_size is 1) and send nothing; every batch_size-th
\* capture drains the whole queue, which is exactly the batch_size events
\* pushed since the last drain, in push order, and triggers exactly one
\* request carrying them; the queue is empty right after the drain.
C2_ThresholdFlush ==
    (NoFlushYet /\ config.batch_size >= 1) =>
        LET bs == config.batch_size
            n == Len(pushOrder)
            k == Len(drained)
        IN  /\ \A i \in 1..k :
                  /\ drained[i].cause = "capture"
                  /\ drained[i].ids = SubSeq(pushOrder, (i - 1) * bs + 1, i * bs)
            /\ Ids(queue) = SubSeq(pushOrder, k * bs + 1, n)
            /\ k = IF pc[Main] = "cap_check" /\ n % bs = 0
                   THEN (n \div bs) - 1 ELSE n \div bs
            /\ Len(wire) = IF pc[Main] = "send" THEN k - 1 ELSE k
            /\ \A i \in DOMAIN wire : WireIds[i] = drained[i].ids
            /\ pc[Main] \in {"send", "await"} =>
                  queue = <<>> /\ Len(events[Main]) = bs
            /\ n < bs => wire = <<>> /\ Len(queue) = n

\* batch_size 3: two capture_message calls and one capture_error, one
\* request with the three events in that order, the queue empty.
C2_Witness ==
    /\ NoFlushYet
    /\ config.batch_size = 3
    /\ queue = <<>>
    /\ Len(wire) = 1
    /\ [i \in DOMAIN wire[1].events |-> wire[1].events[i].event_type]
          = <<"message", "message", "error">>
    /\ wire[1].url = "https://pulse.example/api/v1/events/batch"

\* ------------------------------------------------------------------ C6
\* C6: a request for one event goes to {endpoint}/api/v1/events with that
\* event's object as body; a request for two or more goes to
\* {endpoint}/api/v1/events/batch with the body {"events": [...]} listing
\* the objects of the batch's events in queue order.
C6_RequestShape ==
    \A i \in DOMAIN wire :
        LET r == wire[i]
            n == Len(r.events)
        IN  /\ n = 1 =>
                  /\ r.url = "https://pulse.example/api/v1/events"
                  /\ r.body = ToValue(r.events[1])
            /\ n >= 2 =>
                  /\ r.url = "https://pulse.example/api/v1/events/batch"
                  /\ DOMAIN r.body = {"events"}
                  /\ Len(r.body.events) = n
                  /\ \A j \in 1..n : r.body.events[j] = ToValue(r.events[j])

\* A threshold batch of two went out, then one more event was captured and
\* flush_blocking sent it alone; the queue is empty.
C6_Witness ==
    /\ AllIdle
    /\ queue = <<>>
    /\ Len(wire) = 2
    /\ Len(wire[1].events) = 2
    /\ Len(wire[2].events) = 1
    /\ drained[Len(drained)].cause = "flush_blocking"
    /\ "events" \notin DOMAIN wire[2].body

\* ------------------------------------------------------------------ C7
\* C7: once the client is torn down exactly one drain was made by the
\* destructor, it was the last one, it took everything pushed and not
\* drained before (the queue at teardown), those events went out in one
\* blocking request, and the queue is empty.
C7_TeardownDrains ==
    alive = "dropped" =>
        LET last == Len(drained) IN
        /\ Cardinality({i \in DOMAIN drained : drained[i].cause = "drop"}) = 1
        /\ drained[last].cause = "drop"
        /\ queue = <<>>
        /\ Flatten(DrainedIds) = pushOrder
        /\ Len(wire) = Cardinality(NonEmptyDrains)
        /\ drained[last].ids # <<>> =>
              /\ WireIds[Len(wire)] = drained[last].ids
              /\ wire[Len(wire)].via = "sync"

\* The teardown found events in the queue.
C7_Witness ==
    /\ alive = "dropped"
    /\ drained[Len(drained)].cause = "drop"
    /\ drained[Len(drained)].ids # <<>>

\* ------------------------------------------------------------------ C8
\* C8: a thread that is sending (about to issue its request, or waiting for
\* the answer) does not hold the queue lock; the lock is held only inside
\* the push-and-check and the drain; so while one thread waits for an
\* answer another thread's capture can take the lock and push.
C8_LockNotHeldAcrossSend ==
    /\ \A t \in Threads : pc[t] \in {"send", "await"} => lock # t
    /\ lock # NoThread => pc[lock] \in {"cap_check", "fl_drain"}
    /\ \A t, u \in Threads :
          (t # u /\ pc[t] = "await" /\ pc[u] = "cap_lock")
          => ENABLED CaptureLock(u)

\* One thread waits for the answer to its request while the other has
\* pushed a later event and returned.
C8_Witness ==
    \E t, u \in Threads :
        /\ pc[t] = "await"
        /\ pc[u] = "idle"
        /\ queue # <<>>
        /\ \A i \in DOMAIN queue : \A j \in DOMAIN events[t] :
              Pos(queue[i].id) > Pos(events[t][j].id)

\* ------------------------------------------------------------------ C9
\* The lines the send routines printed: one per answered request.
ResultLines == {i \in DOMAIN log : log[i].kind \in {"sent", "failed"}}

\* C9: every drained batch gets exactly one request (issued, or about to
\* be); no event of a request is in another request or back in the queue,
\* whatever the answer to the request was; under debug each answered
\* request printed exactly one line.
C9_AtMostOnce ==
    /\ \A i, j \in DOMAIN wire :
          i # j => Range(WireIds[i]) \cap Range(WireIds[j]) = {}
    /\ \A i \in DOMAIN wire : Range(WireIds[i]) \cap Range(Ids(queue)) = {}
    /\ Len(wire) + Cardinality({t \in Holding : events[t] # <<>>})
          = Cardinality(NonEmptyDrains)
    /\ config.debug =>
          Cardinality(ResultLines) + Cardinality({t \in Threads : pc[t] = "await"})
            = Len(wire)

\* Two requests were made, one got a transport error and one a 500; every
\* call has returned and the queue is empty.
C9_Witness ==
    /\ AllIdle
    /\ queue = <<>>
    /\ Len(wire) = 2
    /\ \E i, j \in DOMAIN log :
          /\ log[i].kind = "failed"
          /\ log[j].kind = "sent" /\ log[j].status = "500"

\* ----------------------------------------------------------------- C10
\* C10: every caller is always at a position of a normally running or
\* returned call; when a send routine gets its answer, a success, another
\* status or a transport error, the call returns and nothing changes but the
\* output: one more line under debug, nothing without.
C10_FireAndForget ==
    /\ [](\A t \in Threads :
            pc[t] \in {"idle", "cap_lock", "cap_check", "fl_drain", "fl_check",
                       "send", "await"})
    /\ [][\A t \in Threads :
            (pc[t] = "await" /\ pc'[t] # "await") =>
                /\ pc'[t] = "idle"
                /\ op'[t] = "none"
                /\ UNCHANGED <<queue, lock, wire, drained, pushOrder, config>>
                /\ IF config.debug
                   THEN Len(log') = Len(log) + 1 /\ SubSeq(log', 1, Len(log)) = log
                   ELSE log' = log]_vars

\* Under debug a capture, a capture_error, a capture_message, a flush or a
\* flush_blocking whose send failed has returned, and the failure is the
\* last line printed.
C10_Witness ==
    /\ config.debug
    /\ alive = "live"
    /\ AllIdle
    /\ log # <<>>
    /\ log[Len(log)].kind = "failed"

\* ------------------------------------------------------------------ C11
\* The events the client holds or has sent: in capture's local before the
\* push, in the queue, in a drained batch, in a request.
Stored ==
    {event[t] : t \in {u \in Threads : pc[u] = "cap_lock"}}
    \cup Range(queue)
    \cup UNION {Range(events[t]) : t \in Threads}
    \cup UNION {Range(wire[i].events) : i \in DOMAIN wire}

\* The events requests carry, each with the JSON object sent for it.
Sent ==
    UNION {{[event |-> wire[i].events[j],
             object |-> IF Len(wire[i].events) = 1 THEN wire[i].body
                        ELSE wire[i].body.events[j]] :
                j \in DOMAIN wire[i].events} : i \in DOMAIN wire}

\* C11: whatever timestamp the caller supplied, set or unset, the event in
\* the queue and in the request carries the timestamp taken when capture
\* was entered, never the caller's.
C11_TimestampOverwritten ==
    /\ \A e \in Stored :
          /\ e.timestamp = Some(ToRfc3339(given[e.id].at))
          /\ e.timestamp # given[e.id].event.timestamp
    /\ \A s \in Sent :
          /\ "timestamp" \in DOMAIN s.object
          /\ s.object["timestamp"] = ToRfc3339(given[s.event.id].at)

\* A request was issued for an event whose caller had set a timestamp.
C11_Witness ==
    \E s \in Sent :
        /\ IsSome(given[s.event.id].event.timestamp)
        /\ s.object["timestamp"] # Unwrap(given[s.event.id].event.timestamp)

\* ------------------------------------------------------------------ C12
\* C12: an unset environment (release) becomes the Config's, which may be
\* absent, and a set one is kept; an unset level becomes Info and a set one
\* is kept; this is what is queued and what is sent.
C12_FillsOnlyUnset ==
    \A e \in Stored :
        LET g == given[e.id].event
        IN  /\ e.environment = IF IsNone(g.environment) THEN config.environment
                                ELSE g.environment
            /\ e.release = IF IsNone(g.release) THEN config.release ELSE g.release
            /\ e.level = IF IsNone(g.level) THEN Some("Info") ELSE g.level
            /\ \A k \in DOMAIN g \ {"id", "timestamp", "environment", "release", "level"} :
                  e[k] = g[k]

\* A request carries an event whose caller set environment and level and
\* left release unset, on a client whose Config has an environment and no
\* release: the caller's environment and level are sent, and no release.
C12_Witness ==
    \E s \in Sent :
        LET g == given[s.event.id].event
        IN  /\ g.environment = Some("staging") /\ config.environment = Some("production")
            /\ g.level = Some("Fatal")
            /\ IsNone(g.release) /\ IsNone(config.release)
            /\ s.object["environment"] = "staging"
            /\ s.object["level"] = "fatal"
            /\ "release" \notin DOMAIN s.object
\* ------------------------------------------------------------------ C13
\* The drains made by capture at the threshold.
ThresholdDrains == {i \in DOMAIN drained : drained[i].cause = "capture"}

\* Two captures race at the threshold: one holds the lock with the queue at
\* the threshold, about to drain, while the other is past its enrichment and
\* waits for the lock with an event to push.
Raced ==
    /\ config.batch_size >= 1
    /\ \E t, u \in Threads :
          /\ pc[t] = "cap_check" /\ ReachedThreshold(queue)
          /\ pc[u] = "cap_lock"

\* A threshold-triggered batch with more than batch_size events.
Oversize ==
    \E i \in ThresholdDrains : Len(drained[i].ids) > config.batch_size

\* C13, as claimed: when captures race between reaching the threshold and
\* draining, a threshold-triggered batch with more than batch_size events
\* comes out.
C13_RaceOverfillsBatch == Raced ~> Oversize

\* C13, amended: for batch_size >= 1 no interleaving of captures and flushes
\* gives a threshold-triggered batch with more than batch_size events: the
\* queue a capture checks holds at most batch_size events, and so does every
\* batch a capture drains, holds or has drained.
C13_ThresholdBatchNotOversize ==
    config.batch_size >= 1 =>
        /\ \A t \in Threads :
              /\ pc[t] = "cap_check" => Len(queue) <= config.batch_size
              /\ (op[t] = "capture" /\ pc[t] \in {"send", "await"}) =>
                    Len(events[t]) <= config.batch_size
        /\ \A i \in ThresholdDrains : Len(drained[i].ids) <= config.batch_size

\* batch_size 2: the two threads pushed in the opposite order of their
\* calls, the second push drained both events, and the other thread already
\* waits for the lock with a third event: the batch holds two events.
C13_Witness ==
    /\ config.batch_size = 2
    /\ \E t, u \in Threads :
          /\ op[t] = "capture" /\ pc[t] = "send"
          /\ Ids(events[t]) = <<2, 1>>
          /\ pc[u] = "cap_lock" /\ event[u].id = 3
\* ------------------------------------------------------------------ C14
\* C14: two clients with the same Config except debug, given the same calls
\* with the same send outcomes, hold the same queue after every call and have
\* issued the same requests (url, headers, body, batch) in the same order;
\* only the debug client prints.
C14_DebugLeavesWireAlone ==
    /\ twin[TRUE].queue = twin[FALSE].queue
    /\ twin[TRUE].wire = twin[FALSE].wire
    /\ twin[FALSE].log = <<>>

\* The debug client printed what the other did not, after a capture that
\* only queued, a threshold send that failed and a flush that sent one
\* event: one batch request and one single request from both clients.
C14_Witness ==
    /\ Len(twin[FALSE].wire) = 2
    /\ twin[TRUE].wire[1].url = config.endpoint \o BatchPath
    /\ twin[TRUE].wire[2].url = config.endpoint \o SinglePath
    /\ twin[TRUE].wire[2].via = "async"
    /\ twin[TRUE].queue = <<>>
    /\ LogLine("failed", 0, "error") \in Range(twin[TRUE].log)
    /\ Len(twin[TRUE].log) = 5
\* ------------------------------------------------------------------ C15
\* The name serde gives a level under rename_all = "lowercase".
LowercaseNames ==
    {<<"Debug", "debug">>, <<"Info", "info">>, <<"Warning", "warning">>,
     <<"Error", "error">>, <<"Fatal", "fatal">>}

\* C15: the object serialized for an event has the member type holding
\* event_type, has the member of an optional field exactly when the field
\* is set, has no other member and no member that is null, holds a set
\* level under its lowercase name and every other set field as it is; an
\* event with only event_type set gives an object with type alone.
C15_AbsentFieldsOmitted ==
    IsSome(json) =>
        LET e == given[1].event
            o == Unwrap(json).object
            types == Unwrap(json).types
        IN  /\ "type" \in DOMAIN o /\ o["type"] = e.event_type
            /\ DOMAIN o \subseteq {"type"} \cup OptionalFields
            /\ \A f \in OptionalFields : (f \in DOMAIN o) <=> IsSome(e[f])
            /\ DOMAIN types = DOMAIN o
            /\ \A k \in DOMAIN o : types[k] # "null"
            /\ IsSome(e.level) => <<Unwrap(e.level), o["level"]>> \in LowercaseNames
            /\ \A f \in OptionalFields \ {"level", "stacktrace"} :
                  IsSome(e[f]) => o[f] = Unwrap(e[f])
            /\ IsSome(e.stacktrace) =>
                  Len(o["stacktrace"]) = Len(Unwrap(e.stacktrace))
            /\ (\A f \in OptionalFields : IsNone(e[f])) => DOMAIN o = {"type"}

\* The event with only event_type set was serialized: the object is
\* {"type": "test"}.
C15_Witness ==
    /\ IsSome(json)
    /\ given[1].event = [BareEvent EXCEPT !.id = 0]
    /\ Unwrap(json).object = [type |-> "test"]
\* ------------------------------------------------------------------ C16
\* C16: the client built from the default Config has batch_size 10,
\* environment "production", no release and debug off; with no flush call
\* its first nine captures queue their events and send nothing, the tenth
\* drains the ten events into one request; every event whose caller left
\* environment unset is held and sent with environment "production".
C16_Defaults ==
    LET n == Len(pushOrder)
        checking == pc[Main] = "cap_check"
        k == IF checking /\ n % 10 = 0 THEN (n \div 10) - 1 ELSE n \div 10
    IN  /\ config.batch_size = 10
        /\ config.environment = Some("production")
        /\ IsNone(config.release)
        /\ config.debug = FALSE
        /\ n <= 9 => wire = <<>> /\ drained = <<>> /\ Len(queue) = n
        /\ Len(drained) = k
        /\ \A i \in DOMAIN drained : drained[i].ids = SubSeq(pushOrder, 10 * i - 9, 10 * i)
        /\ Len(wire) = IF pc[Main] = "send" THEN k - 1 ELSE k
        /\ \A i \in DOMAIN wire : WireIds[i] = drained[i].ids
        /\ \A e \in Stored :
              IsNone(given[e.id].event.environment) => e.environment = Some("production")
        /\ \A s \in Sent :
              IsNone(given[s.event.id].event.environment) =>
                  s.object["environment"] = "production"

\* Ten captures were made: one request, to the batch endpoint, carries the
\* ten events, each with environment "production" and no release, and the
\* queue is empty.
C16_Witness ==
    /\ Len(pushOrder) = 10
    /\ queue = <<>>
    /\ Len(wire) = 1
    /\ wire[1].url = Endpoint \o BatchPath
    /\ Len(wire[1].body.events) = 10
    /\ \A j \in 1..10 :
          /\ wire[1].body.events[j]["environment"] = "production"
          /\ "release" \notin DOMAIN wire[1].body.events[j]
\* ------------------------------------------------------------------ C17
\* C17: every step that takes events out of the queue or counts as a drain,
\* in capture at the threshold, in flush, in flush_blocking or in the
\* teardown, is one step of the thread holding the lock; its batch is the
\* whole queue as it was, whatever batch_size is, the queue is empty after
\* it and the lock is released only then.
C17_WholesaleDrain ==
    [][ (Len(queue') < Len(queue) \/ drained' # drained) =>
            \E t \in Threads :
                /\ lock = t
                /\ events'[t] = queue
                /\ queue' = <<>>
                /\ lock' = NoThread
                /\ drained' = Append(drained, [ids |-> Ids(queue), cause |-> op[t]]) ]_vars

\* batch_size 2: a capture drained two events at the threshold, a flush
\* drained the one event left, and the teardown drained too.
C17_Witness ==
    /\ config.batch_size = 2
    /\ \E i, j, k \in DOMAIN drained :
          /\ drained[i].cause = "capture" /\ Len(drained[i].ids) = 2
          /\ drained[j].cause \in {"flush", "flush_blocking"} /\ Len(drained[j].ids) = 1
          /\ drained[k].cause = "drop"
\* ------------------------------------------------------------------ C18
\* The functions that flush: flush, flush_blocking, and Drop::drop, which
\* calls flush_blocking.
FlushOps == {"flush", "flush_blocking", "drop"}

\* What a step of a flushing thread t does, stated without regard to which
\* of the functions t is in, but for the way the request is awaited.
FlushEffect(t) ==
    CASE pc[t] = "fl_drain" ->
             /\ events'[t] = queue /\ queue' = <<>> /\ lock' = NoThread
             /\ wire' = wire /\ log' = log
      [] pc[t] = "fl_check" ->
             /\ queue' = queue /\ wire' = wire /\ log' = log
             /\ pc'[t] = IF events[t] = <<>> THEN "idle" ELSE "send"
      [] pc[t] = "send" ->
             /\ queue' = queue /\ log' = log /\ events'[t] = events[t]
             /\ Len(wire') = Len(wire) + 1
             /\ SubSeq(wire', 1, Len(wire)) = wire
             /\ LET r == wire'[Len(wire')]
                IN  /\ r.url = prepare_request(events[t]).url
                    /\ r.body = prepare_request(events[t]).body
                    /\ r.content_type = "application/json"
                    /\ r.key = config.api_key
                    /\ r.events = events[t]
                    /\ r.via = IF op[t] = "flush" THEN "async" ELSE "sync"
      [] pc[t] = "await" ->
             /\ queue' = queue /\ wire' = wire /\ pc'[t] = "idle"
             /\ \E outcome \in Outcomes :
                   log' = Println(log, ResultLine(outcome, events[t]))
      [] OTHER -> TRUE

\* C18: flush and flush_blocking have the same effect: from the same queue
\* each drains the whole queue as its batch and leaves the queue empty,
\* sends nothing when the batch is empty, and otherwise issues the request
\* prepare_request gives for the batch with the same two headers, and
\* prints the same line under debug; the one difference is the routine
\* that awaits the response.
C18_FlushesAgree ==
    [][ \A t \in Threads :
            (op[t] \in FlushOps /\ pc'[t] # pc[t]) => FlushEffect(t) ]_vars

\* Debug on, batch_size 2: a flush sent one event through the async
\* routine, the flush_blocking of the teardown sent one event through the
\* blocking routine: the same url, the same headers, and the same line
\* printed for each.
C18_Witness ==
    /\ config.debug
    /\ Len(wire) = 2
    /\ wire[1].via = "async" /\ wire[2].via = "sync"
    /\ wire[1].url = wire[2].url
    /\ wire[1].key = wire[2].key
    /\ DOMAIN wire[1].body = DOMAIN wire[2].body
    /\ drained[1].cause = "flush" /\ drained[2].cause = "drop"
    /\ alive = "dropped"
    /\ Count(LogLine("sent", 1, "200"), log) = 2
\* ------------------------------------------------------------------ C19
\* C19: for batch_size >= 1, under any interleaving of captures and
\* flushes, the queue holds fewer than batch_size events whenever no thread
\* holds the lock and never more than batch_size, and every batch drained
\* at the threshold has exactly batch_size events.
C19_QueueBound ==
    config.batch_size >= 1 =>
        /\ lock = NoThread => Len(queue) < config.batch_size
        /\ Len(queue) <= config.batch_size
        /\ \A i \in ThresholdDrains : Len(drained[i].ids) = config.batch_size

\* batch_size 2: one thread still sends the batch it drained at the
\* threshold, pushed by both threads, while the other has queued a third
\* event and returned: the lock is free and the queue holds one event.
C19_Witness ==
    /\ config.batch_size = 2
    /\ lock = NoThread
    /\ Len(queue) = 1
    /\ \E t \in Threads :
          /\ op[t] = "capture" /\ pc[t] = "send"
          /\ Ids(events[t]) = <<2, 1>>
    /\ \E i \in ThresholdDrains : drained[i].ids = <<2, 1>>
\* ------------------------------------------------------------------ C20
\* What a client with batch_size 1 does: the queue is empty whenever the
\* lock is free; every capture finds the threshold reached with its one
\* event in the queue, drains it and sends it alone, through the blocking
\* routine, to the single-event endpoint; flushes and the teardown find
\* the queue empty; no request carries an empty batch.
LikeBatchSizeOne ==
    /\ lock = NoThread => queue = <<>>
    /\ \A t \in Threads :
          pc[t] = "cap_check" =>
              /\ Len(queue) = 1
              /\ ReachedThreshold(queue)
              /\ (Len(queue) >= 0) = (Len(queue) >= 1)
    /\ \A i \in DOMAIN drained :
          Len(drained[i].ids) = IF drained[i].cause = "capture" THEN 1 ELSE 0
    /\ Cardinality(ThresholdDrains)
          = Len(pushOrder) - Cardinality({t \in Threads : pc[t] = "cap_check"})
    /\ \A i \in DOMAIN wire :
          /\ Len(wire[i].events) = 1
          /\ wire[i].url = config.endpoint \o SinglePath
          /\ wire[i].body = ToValue(wire[i].events[1])
          /\ wire[i].via = "sync"

\* C20: new() accepts batch_size 0, and the client then behaves as one with
\* batch_size 1 does.
C20_ZeroLikeOne ==
    /\ config.batch_size = 0 => LikeBatchSizeOne
    /\ config.batch_size = 1 => LikeBatchSizeOne

\* batch_size 0: three captures by two threads gave three requests of one
\* event each, a flush and the teardown found the queue empty.
C20_Witness ==
    /\ config.batch_size = 0
    /\ alive = "dropped"
    /\ Len(wire) = 3
    /\ Len(drained) = 5
    /\ \E i \in DOMAIN wire : wire[i].events[1].id # i
====
